---- MODULE Spec2Model ----
(***************************************************************************)
(* State machine of the App component of YapAI (src/types.ts, lines 34 to  *)
(* 348): the transient UI state, the history kept under the local-storage  *)
(* key 'yap_history', the generation calls in flight and the recording     *)
(* sessions.  One action per event handler, effect or promise              *)
(* continuation.  React runs the effects a handler triggers before the     *)
(* next event is handled, so an action that changes the history includes   *)
(* the save effect of lines 72-74.                                         *)
(***************************************************************************)
EXTENDS Integers, Sequences, FiniteSets

(***************************************************************************)
(* Bounds of the model.                                                    *)
(***************************************************************************)
\* Longest history sequence found in local storage at startup.
MaxStored == 11
\* Generation calls issued over a run.
MaxGenerations == 2
\* Recording sessions started over a run.
MaxSessions == 2
\* Generation calls and recording sessions started over a run, together.
MaxFlows == 2

\* handleGenerate, line 98: slice(0, 10).
HistoryCap == 10

(***************************************************************************)
(* Values.  A string is a sequence of one-character strings where the code *)
(* looks inside it (trim, template literal) and an opaque string elsewhere.*)
(***************************************************************************)
Null == "null"
\* useRef<MediaRecorder | null>(null), line 56: no recorder referenced.
NoRecorder == 0

ValidationMsg == "Please enter a topic to yap about."
GenFailMsg == "Failed to generate yap. Please try again."
TranscribeMsg == "Failed to transcribe audio. Please try again."
MicMsg == "Microphone access denied or not supported."

ZOOMER == "Zoomer / Brainrot"
PIRATE == "Pirate"
MEDIUM == "Medium (Solid Rant)"
SHORT == "Short (Quick Yap)"

\* What the user types into the textarea, picks in the selects.
TopicInputs == {<<>>, <<" ">>, <<" ", "a">>}
StyleInputs == {ZOOMER, PIRATE}
LengthInputs == {MEDIUM, SHORT}
\* Texts the generation service and the transcription service return.
YapTexts == {"yap"}
Transcripts == {<<>>, <<"t">>}
\* Sizes of the blob a recorder delivers when it is stopped.
ChunkSizes == {0, 1}

\* String.prototype.trim on a sequence of characters.
RECURSIVE TrimStart(_)
TrimStart(s) ==
  IF s # <<>> /\ Head(s) = " " THEN TrimStart(Tail(s)) ELSE s

RECURSIVE TrimEnd(_)
TrimEnd(s) ==
  IF s # <<>> /\ s[Len(s)] = " " THEN TrimEnd(SubSeq(s, 1, Len(s) - 1)) ELSE s

Trim(s) == TrimEnd(TrimStart(s))

\* Array.prototype.slice(0, n).
Slice(s, n) == SubSeq(s, 1, IF Len(s) < n THEN Len(s) ELSE n)

(***************************************************************************)
(* JSON text of a history, as a sequence of tokens.                        *)
(***************************************************************************)
LBracket == [t |-> "["]
RBracket == [t |-> "]"]
Comma == [t |-> ","]
ObjectToken(item) == [t |-> "object", v |-> item]

\* A value a state holds where the code expects an array: the object v.
\* An array is a sequence, indexed from 1; the object sits at index 0.
NonArray(v) == [i \in {0} |-> v]

\* Whether the spread [...h] of line 98 iterates h.
IsArray(h) == 0 \notin DOMAIN h

RECURSIVE StringifyItems(_)
StringifyItems(h) ==
  IF h = <<>> THEN <<>>
  ELSE IF Len(h) = 1 THEN <<ObjectToken(h[1])>>
  ELSE <<ObjectToken(h[1]), Comma>> \o StringifyItems(Tail(h))

\* JSON.stringify(history), line 73.
Stringify(h) ==
  IF IsArray(h) THEN <<LBracket>> \o StringifyItems(h) \o <<RBracket>>
  ELSE <<ObjectToken(h[0])>>

\* Whether text is the JSON of one object.
ParsesObject(text) == Len(text) = 1 /\ text[1].t = "object"

\* Whether text is the JSON of an array of objects.
ParsesArray(text) ==
  /\ Len(text) >= 2
  /\ text[1] = LBracket
  /\ text[Len(text)] = RBracket
  /\ LET inner == SubSeq(text, 2, Len(text) - 1)
     IN  \/ inner = <<>>
         \/ /\ Len(inner) % 2 = 1
            /\ \A i \in 1..Len(inner) :
                 IF i % 2 = 1 THEN inner[i].t = "object" ELSE inner[i] = Comma

\* Whether JSON.parse(text) returns instead of throwing.
Parses(text) == ParsesObject(text) \/ ParsesArray(text)

\* JSON.parse(text), line 64, for a text that parses.
Parse(text) ==
  IF ParsesObject(text) THEN NonArray(text[1].v)
  ELSE LET inner == SubSeq(text, 2, Len(text) - 1)
       IN  [i \in 1..((Len(inner) + 1) \div 2) |-> inner[2 * i - 1].v]

(***************************************************************************)
(* What local storage may hold under 'yap_history' when the page loads:    *)
(* nothing, text that is not JSON, or the JSON of a history sequence.      *)
(* Stored item k was created k-th: the sequence is newest first.           *)
(***************************************************************************)
StoredItem(k) ==
  [id |-> -k, topic |-> <<" ", "a">>, content |-> "old", style |-> PIRATE,
   timestamp |-> k]

StoredHistory(n) == [i \in 1..n |-> StoredItem(n + 1 - i)]

Unparsable == <<LBracket>>

\* localStorage.getItem returns null: no entry.
Absent == <<[t |-> "null"]>>

\* Lengths of the stored sequences: none, the cap, above the cap.
StoredLengths == {0, HistoryCap, MaxStored}

StoredTexts ==
  {Absent, Unparsable} \cup {Stringify(StoredHistory(n)) : n \in StoredLengths}

\* JSON that is not an array: one history item, not wrapped in brackets.
ObjectText == <<ObjectToken(StoredItem(1))>>

\* An entry that is missing or malformed.
MalformedTexts == {Absent, Unparsable, ObjectText}

VARIABLES
  mounted,           \* the mount effects have run
  topic, style, length, generatedContent, isLoading, history, error,
  isRecording, isTranscribing, mediaRecorderRef, audioChunksRef,
  storage,           \* localStorage entry 'yap_history'
  genCalls,          \* generateYap calls in flight
  nextCall,          \* calls issued so far, plus one
  now,               \* Date.now(): it never goes back
  sessions,          \* recording sessions: getUserMedia streams and recorders
  overwritten,       \* history variable: calls in flight whose cleared display
                     \* has since been written by another handler
  cleared,           \* history variable: Clear history ran and no generation
                     \* has been recorded since
  crashed            \* a render threw: React has unmounted the component tree

uiVars == <<topic, style, length, generatedContent, isLoading, error>>
recVars == <<isRecording, isTranscribing, mediaRecorderRef, audioChunksRef,
             sessions>>
genVars == <<genCalls, nextCall, now, overwritten, crashed>>
vars == <<mounted, uiVars, history, storage, recVars, genVars, cleared>>

\* useState initial values, lines 45-57.
InitialState ==
  /\ topic = <<>>
  /\ style = ZOOMER
  /\ length = MEDIUM
  /\ generatedContent = ""
  /\ isLoading = FALSE
  /\ history = <<>>
  /\ error = Null
  /\ isRecording = FALSE
  /\ isTranscribing = FALSE
  /\ mediaRecorderRef = NoRecorder
  /\ audioChunksRef = <<>>

\* The page before its first render, but for the stored entry.
FirstRender ==
  /\ InitialState
  /\ mounted = FALSE
  /\ crashed = FALSE
  /\ genCalls = {}
  /\ nextCall = 1
  /\ now = MaxStored + 1
  /\ sessions = <<>>
  /\ overwritten = {}
  /\ cleared = FALSE

Init == FirstRender /\ storage \in StoredTexts

\* The page loads with a missing or malformed entry.
InitMalformed == FirstRender /\ storage \in MalformedTexts

(***************************************************************************)
(* Startup and the two effects, lines 60-74.                               *)
(***************************************************************************)
\* The load effect: the history after it, from the initial [].
LoadEffect(saved) ==
  IF saved # Absent /\ saved # <<>> /\ Parses(saved) THEN Parse(saved) ELSE <<>>

\* The save effect: the entry after a render with history h.
SaveEffect(h) == Stringify(h)

\* Mutant: the save effect runs for the first render only, with the initial
\* empty history, and not again after the load effect's setHistory.
MountSavesInitial ==
  /\ ~mounted
  /\ ~crashed
  /\ mounted' = TRUE
  /\ history' = LoadEffect(storage)
  /\ storage' = SaveEffect(<<>>)
  /\ UNCHANGED <<uiVars, recVars, genVars, cleared>>

\* First render: both effects run, the load effect's setHistory renders again
\* and the save effect writes the loaded history.
Mount ==
  /\ ~mounted
  /\ ~crashed
  /\ mounted' = TRUE
  /\ history' = LoadEffect(storage)
  /\ storage' = SaveEffect(history')
  /\ UNCHANGED <<uiVars, recVars, genVars, cleared>>

\* The page is reloaded: the component state is rebuilt from its initial
\* values, promises and media streams of the old page are gone, local
\* storage stays.
Restart ==
  /\ mounted \/ crashed
  /\ mounted' = FALSE
  /\ crashed' = FALSE
  /\ topic' = <<>>
  /\ style' = ZOOMER
  /\ length' = MEDIUM
  /\ generatedContent' = ""
  /\ isLoading' = FALSE
  /\ history' = <<>>
  /\ error' = Null
  /\ isRecording' = FALSE
  /\ isTranscribing' = FALSE
  /\ mediaRecorderRef' = NoRecorder
  /\ audioChunksRef' = <<>>
  /\ genCalls' = {}
  /\ overwritten' = {}
  /\ sessions' = <<>>
  /\ UNCHANGED <<storage, nextCall, now, cleared>>

(***************************************************************************)
(* The controls, lines 220, 252, 275.                                      *)
(***************************************************************************)
SetTopic(t) ==
  /\ mounted
  /\ topic' = t
  /\ UNCHANGED <<mounted, style, length, generatedContent, isLoading, error,
                 history, storage, recVars, genVars, cleared>>

SetStyle(s) ==
  /\ mounted
  /\ style' = s
  /\ UNCHANGED <<mounted, topic, length, generatedContent, isLoading, error,
                 history, storage, recVars, genVars, cleared>>

SetLength(l) ==
  /\ mounted
  /\ length' = l
  /\ UNCHANGED <<mounted, topic, style, generatedContent, isLoading, error,
                 history, storage, recVars, genVars, cleared>>

(***************************************************************************)
(* handleGenerate, lines 76-104.                                           *)
(***************************************************************************)
Button == "button"
Regenerate == "regenerate"
Shortcut == "shortcut"
Triggers == {Button, Regenerate, Shortcut}

\* The Generate button is disabled while loading (line 298); handleKeyDown
\* (lines 118-122) and the onRegenerate prop (line 328) call handleGenerate
\* as it is.
TriggerEnabled(via) == via = Button => ~isLoading

\* Mutant: the guard without trim().
TopicIsEmpty(t) == t = <<>>

\* Lines 77-80: the guard.
TopicIsBlank(t) == Trim(t) = <<>>

\* Generation calls issued so far, plus recording sessions of this page load.
FlowsStarted == (nextCall - 1) + Len(sessions)

\* Lines 76-87: up to the await of generateYap(topic, style, length).
Generate(via) ==
  /\ mounted
  /\ TriggerEnabled(via)
  /\ IF TopicIsBlank(topic)
     THEN /\ error' = ValidationMsg
          /\ UNCHANGED <<isLoading, generatedContent, genVars>>
     ELSE /\ nextCall <= MaxGenerations
          /\ FlowsStarted < MaxFlows
          /\ error' = Null
          /\ isLoading' = TRUE
          /\ generatedContent' = ""
          /\ genCalls' = genCalls \cup
               {[id |-> nextCall, topic |-> topic, style |-> style, length |-> length]}
          /\ nextCall' = nextCall + 1
          /\ UNCHANGED <<now, overwritten, crashed>>
  /\ UNCHANGED <<mounted, topic, style, length, history, storage, recVars, cleared>>

\* crypto.randomUUID(), line 91: a fresh identifier, here the call's number.
RandomUUID(c) == c.id

\* Mutant: the item is built from the topic and style of the current render.
NewItemFromState(c, result) ==
  [id |-> RandomUUID(c), topic |-> topic, content |-> result,
   style |-> style, timestamp |-> now]

\* Mutant: the timestamp is taken when the call is issued, before the await.
NewItemStampedAtIssue(c, result) ==
  [id |-> RandomUUID(c), topic |-> c.topic, content |-> result,
   style |-> c.style, timestamp |-> MaxStored + c.id]

\* Lines 90-96: the item built from the handler's captured topic and style.
NewItem(c, result) ==
  [id |-> RandomUUID(c), topic |-> c.topic, content |-> result,
   style |-> c.style, timestamp |-> now]

\* Mutant: the updater without slice(0, 10).
RecordUncapped(item, prev) == <<item>> \o prev

\* Line 98: prev => [newItem, ...prev].slice(0, 10).
Record(item, prev) == Slice(<<item>> \o prev, HistoryCap)

\* Lines 88-98 and 102: generateYap resolved with result.  The updater of
\* line 98 runs in the next render; when prev is not iterable the spread
\* throws there, and React unmounts the tree: no effect runs, no handler is
\* left to call.
GenSuccess(c, result) ==
  /\ c \in genCalls
  /\ IF IsArray(history)
     THEN /\ generatedContent' = result
          /\ history' = Record(NewItem(c, result), history)
          /\ storage' = SaveEffect(history')
          /\ isLoading' = FALSE
          /\ genCalls' = genCalls \ {c}
          /\ overwritten' = (overwritten \cup {d.id : d \in genCalls}) \ {c.id}
          /\ now' \in {now, now + 1}
          /\ cleared' = FALSE
          /\ UNCHANGED <<mounted, crashed>>
     ELSE /\ crashed' = TRUE
          /\ mounted' = FALSE
          /\ genCalls' = {}
          /\ overwritten' = {}
          /\ UNCHANGED <<generatedContent, history, storage, isLoading, now,
                         cleared>>
  /\ UNCHANGED <<topic, style, length, error, recVars, nextCall>>

\* Mutant: setIsLoading(false) at the end of the try block, not in finally.
GenFailKeepsLoading(c) ==
  /\ c \in genCalls
  /\ error' = GenFailMsg
  /\ genCalls' = genCalls \ {c}
  /\ overwritten' = overwritten \ {c.id}
  /\ UNCHANGED <<mounted, topic, style, length, generatedContent, isLoading,
                 history, storage, recVars, nextCall, now, cleared, crashed>>

\* Lines 99-103: generateYap rejected.
GenFail(c) ==
  /\ c \in genCalls
  /\ error' = GenFailMsg
  /\ isLoading' = FALSE
  /\ genCalls' = genCalls \ {c}
  /\ overwritten' = overwritten \ {c.id}
  /\ UNCHANGED <<mounted, topic, style, length, generatedContent, history,
                 storage, recVars, nextCall, now, cleared, crashed>>

(***************************************************************************)
(* handleClearHistory and handleSelectHistory, lines 106-116.              *)
(***************************************************************************)
\* Mutant: the history is emptied in memory only, the entry is left alone.
ClearHistoryInMemory ==
  /\ mounted
  /\ history' = <<>>
  /\ cleared' = TRUE
  /\ UNCHANGED <<mounted, uiVars, storage, recVars, genVars>>

\* Lines 107-108, then the save effect for the new [].
ClearHistory ==
  /\ mounted
  /\ history' = <<>>
  /\ storage' = SaveEffect(history')
  /\ cleared' = TRUE
  /\ UNCHANGED <<mounted, uiVars, recVars, genVars>>

\* The entries the History component lists (line 333).
Listed(h) == IF IsArray(h) THEN h ELSE <<>>

\* Mutant: selecting also dismisses the error banner.
SelectHistoryClearsError(i) ==
  /\ mounted
  /\ i \in 1..Len(Listed(history))
  /\ topic' = history[i].topic
  /\ style' = history[i].style
  /\ generatedContent' = history[i].content
  /\ error' = Null
  /\ overwritten' = {d.id : d \in genCalls}
  /\ UNCHANGED <<mounted, length, isLoading, history, storage, recVars,
                 genCalls, nextCall, now, cleared, crashed>>

\* Lines 111-116.
SelectHistory(i) ==
  /\ mounted
  /\ i \in 1..Len(Listed(history))
  /\ topic' = history[i].topic
  /\ style' = history[i].style
  /\ generatedContent' = history[i].content
  /\ overwritten' = {d.id : d \in genCalls}
  /\ UNCHANGED <<mounted, length, isLoading, error, history, storage, recVars,
                 genCalls, nextCall, now, cleared, crashed>>

ControlNext ==
  \/ Mount
  \/ Restart
  \/ \E t \in TopicInputs : SetTopic(t)

GenNext ==
  \/ \E s \in StyleInputs : SetStyle(s)
  \/ \E l \in LengthInputs : SetLength(l)
  \/ \E via \in Triggers : Generate(via)
  \/ \E c \in genCalls, r \in YapTexts : GenSuccess(c, r)
  \/ \E c \in genCalls : GenFail(c)
  \/ ClearHistory
  \/ \E i \in 1..Len(Listed(history)) : SelectHistory(i)

(***************************************************************************)
(* Recording, lines 125-175.  A session is one call of startRecording: its *)
(* getUserMedia request, then its stream and its recorder.                 *)
(*   requesting    getUserMedia is pending                                 *)
(*   denied        getUserMedia rejected                                   *)
(*   unsupported   new MediaRecorder(stream) threw                         *)
(*   unstartable   mediaRecorder.start() threw                             *)
(*   recording     the recorder runs                                       *)
(*   stopping      stop() was called, the recorder's events are queued     *)
(*   transcribing  onstop awaits blobToBase64 and transcribeAudio          *)
(*   done          onstop has returned                                     *)
(* held: the stream's tracks are live; releases: how many times line 158   *)
(* ran for the stream; captured: history field, the non-empty chunks this  *)
(* session's recorder delivered, in order; payload: the chunks of the blob *)
(* built at line 139.                                                      *)
(***************************************************************************)
NewSession ==
  [state |-> "requesting", held |-> FALSE, releases |-> 0, captured |-> <<>>,
   payload |-> <<>>]

\* Line 227: the toggle is disabled while transcribing.
ToggleEnabled == ~isTranscribing

\* Line 226 with isRecording false, up to the await of line 127.
StartRecording ==
  /\ mounted
  /\ ToggleEnabled
  /\ ~isRecording
  /\ Len(sessions) < MaxSessions
  /\ FlowsStarted < MaxFlows
  /\ sessions' = Append(sessions, NewSession)
  /\ UNCHANGED <<mounted, uiVars, history, storage, isRecording, isTranscribing,
                 mediaRecorderRef, audioChunksRef, genVars, cleared>>

\* Line 127 rejects: lines 164-167.
DenyMicrophone(s) ==
  /\ sessions[s].state = "requesting"
  /\ sessions' = [sessions EXCEPT ![s].state = "denied"]
  /\ error' = MicMsg
  /\ UNCHANGED <<mounted, topic, style, length, generatedContent, isLoading,
                 history, storage, isRecording, isTranscribing,
                 mediaRecorderRef, audioChunksRef, genVars, cleared>>

\* How lines 128-163 can end once the stream is there.
Started == "started"
ConstructorThrows == "constructor throws"
StartThrows == "start throws"
RecorderOutcomes == {Started, ConstructorThrows, StartThrows}

\* Line 127 resolves with a stream, then lines 128-163 and, on a throw,
\* lines 164-167.
GrantMicrophone(s, outcome) ==
  /\ sessions[s].state = "requesting"
  /\ CASE outcome = ConstructorThrows ->
            /\ sessions' = [sessions EXCEPT ![s].state = "unsupported",
                                            ![s].held = TRUE]
            /\ error' = MicMsg
            /\ UNCHANGED <<mediaRecorderRef, audioChunksRef, isRecording>>
       [] outcome = StartThrows ->
            /\ sessions' = [sessions EXCEPT ![s].state = "unstartable",
                                            ![s].held = TRUE]
            /\ mediaRecorderRef' = s
            /\ audioChunksRef' = <<>>
            /\ error' = MicMsg
            /\ UNCHANGED isRecording
       [] outcome = Started ->
            /\ sessions' = [sessions EXCEPT ![s].state = "recording",
                                            ![s].held = TRUE]
            /\ mediaRecorderRef' = s
            /\ audioChunksRef' = <<>>
            /\ isRecording' = TRUE
            /\ error' = Null
  /\ UNCHANGED <<mounted, topic, style, length, generatedContent, isLoading,
                 history, storage, isTranscribing, genVars, cleared>>

\* MediaRecorder.stop() on a recorder that is not recording: older builds
\* throw InvalidStateError, newer ones return.
Throws == "throws"
Returns == "returns"
InactiveStopOutcomes == {Throws, Returns}

\* Line 226 with isRecording true: stopRecording, lines 170-175.
StopRecording(inactiveStop) ==
  /\ mounted
  /\ ToggleEnabled
  /\ isRecording
  /\ IF mediaRecorderRef # NoRecorder
     THEN IF sessions[mediaRecorderRef].state = "recording"
          THEN /\ inactiveStop = Returns
               /\ sessions' = [sessions EXCEPT ![mediaRecorderRef].state = "stopping"]
               /\ isRecording' = FALSE
          ELSE /\ sessions' = sessions
               /\ isRecording' = (inactiveStop = Throws)
     ELSE /\ inactiveStop = Returns
          /\ UNCHANGED <<sessions, isRecording>>
  /\ UNCHANGED <<mounted, uiVars, history, storage, isTranscribing,
                 mediaRecorderRef, audioChunksRef, genVars, cleared>>

\* Lines 132-136, ondataavailable: the chunk is pushed onto whatever array
\* the shared ref holds when the event fires, unless it is empty.
DataAvailable(chunks, chunk) ==
  IF chunk.size > 0 THEN Append(chunks, chunk) ELSE chunks

\* The task a stopped recorder queues: it fires dataavailable with what was
\* captured (start() had no timeslice, so this is the session's one chunk) and
\* then stop, with no other task in between.  Lines 138-143, onstop, up to the
\* first await: the blob is built from the shared ref.
OnStop(s, size) ==
  /\ sessions[s].state = "stopping"
  /\ LET chunk == [session |-> s, size |-> size]
     IN  /\ audioChunksRef' = DataAvailable(audioChunksRef, chunk)
         /\ sessions' = [sessions EXCEPT
                          ![s].state = "transcribing",
                          ![s].captured = DataAvailable(@, chunk),
                          ![s].payload = audioChunksRef']
  /\ isTranscribing' = TRUE
  /\ UNCHANGED <<mounted, uiVars, history, storage, isRecording,
                 mediaRecorderRef, genVars, cleared>>

\* Line 158: stream.getTracks().forEach(track => track.stop()).
ReleaseStream(session) ==
  [session EXCEPT !.held = FALSE, !.releases = @ + 1, !.state = "done"]

\* Mutant: the updater joins the topic as it stands, without trim().
AppendUntrimmed(prev, text) ==
  IF prev # <<>> THEN prev \o <<" ">> \o text ELSE text

\* Lines 146-149: the updater of setTopic.
AppendTranscript(prev, text) ==
  LET trimmed == Trim(prev)
  IN  IF trimmed # <<>> THEN trimmed \o <<" ">> \o text ELSE text

\* Lines 144-150 and 153-158: transcribeAudio resolved with text.
TranscribeSuccess(s, text) ==
  /\ sessions[s].state = "transcribing"
  /\ topic' = IF text # <<>> THEN AppendTranscript(topic, text) ELSE topic
  /\ isTranscribing' = FALSE
  /\ sessions' = [sessions EXCEPT ![s] = ReleaseStream(@)]
  /\ UNCHANGED <<mounted, style, length, generatedContent, isLoading, error,
                 history, storage, isRecording, mediaRecorderRef,
                 audioChunksRef, genVars, cleared>>

\* Mutant: the tracks are stopped inside the try block, after the awaits.
TranscribeFailKeepsStream(s) ==
  /\ sessions[s].state = "transcribing"
  /\ error' = TranscribeMsg
  /\ isTranscribing' = FALSE
  /\ sessions' = [sessions EXCEPT ![s].state = "done"]
  /\ UNCHANGED <<mounted, topic, style, length, generatedContent, isLoading,
                 history, storage, isRecording, mediaRecorderRef,
                 audioChunksRef, genVars, cleared>>

\* Mutant: setIsTranscribing(false) sits at the end of the try block, not in
\* finally.
TranscribeFailKeepsFlag(s) ==
  /\ sessions[s].state = "transcribing"
  /\ error' = TranscribeMsg
  /\ sessions' = [sessions EXCEPT ![s] = ReleaseStream(@)]
  /\ UNCHANGED <<mounted, topic, style, length, generatedContent, isLoading,
                 history, storage, isRecording, isTranscribing, mediaRecorderRef,
                 audioChunksRef, genVars, cleared>>

\* Lines 151-158: blobToBase64 or transcribeAudio rejected.
TranscribeFail(s) ==
  /\ sessions[s].state = "transcribing"
  /\ error' = TranscribeMsg
  /\ isTranscribing' = FALSE
  /\ sessions' = [sessions EXCEPT ![s] = ReleaseStream(@)]
  /\ UNCHANGED <<mounted, topic, style, length, generatedContent, isLoading,
                 history, storage, isRecording, mediaRecorderRef,
                 audioChunksRef, genVars, cleared>>

RecNext ==
  \/ StartRecording
  \/ \E s \in DOMAIN sessions : DenyMicrophone(s)
  \/ \E s \in DOMAIN sessions, o \in RecorderOutcomes : GrantMicrophone(s, o)
  \/ \E o \in InactiveStopOutcomes : StopRecording(o)
  \/ \E s \in DOMAIN sessions, size \in ChunkSizes : OnStop(s, size)
  \/ \E s \in DOMAIN sessions, text \in Transcripts : TranscribeSuccess(s, text)
  \/ \E s \in DOMAIN sessions : TranscribeFail(s)

Next == ControlNext \/ GenNext \/ RecNext

Spec == Init /\ [][Next]_vars

(***************************************************************************)
(* The generation handlers and the recording handlers share only topic and *)
(* error: a recording handler writes error (lines 152, 163, 166) and topic *)
(* (line 146), a generation handler writes error (lines 78, 82, 100) and,  *)
(* through handleSelectHistory, topic.  Neither reads what the other side  *)
(* keeps, and only the generation handlers read style and length.  The two *)
(* flows are checked apart, each with startup, reload and the topic field. *)
(***************************************************************************)
SpecGen == Init /\ [][ControlNext \/ GenNext]_vars

SpecRec == Init /\ [][ControlNext \/ RecNext]_vars

\* Both flows together, from an empty entry.
InitFresh == FirstRender /\ storage = Absent

\* handleGenerate alone: the handlers left out (style, length, select, clear)
\* write neither flag and start or resolve no call.
GenFlowNext ==
  \/ \E via \in Triggers : Generate(via)
  \/ \E c \in genCalls, result \in YapTexts : GenSuccess(c, result)
  \/ \E c \in genCalls : GenFail(c)

SpecFlow == InitFresh /\ [][ControlNext \/ GenFlowNext \/ RecNext]_vars

\* A generation call in flight resolves, one way or the other.
GenResolves ==
  \E c \in genCalls : GenFail(c) \/ \E result \in YapTexts : GenSuccess(c, result)

\* A transcription in flight resolves, one way or the other.
TranscribeResolves ==
  \E s \in DOMAIN sessions :
    TranscribeFail(s) \/ \E text \in Transcripts : TranscribeSuccess(s, text)

\* Both flows, with every call to the service resolving in the end: the event
\* loop runs the continuation of an await once its promise has settled.
SpecFlowFair ==
  SpecFlow /\ WF_vars(GenResolves) /\ WF_vars(TranscribeResolves)

\* The generation flow from a missing or malformed entry.
SpecLoad == InitMalformed /\ [][ControlNext \/ GenNext]_vars

(***************************************************************************)
(* Properties of the generation flow and the history (SpecGen).            *)
(***************************************************************************)
\* A string that is empty or holds only spaces.
OnlySpaces(t) == \A i \in 1..Len(t) : t[i] = " "

\* C1: in every reachable state the in-memory history holds at most 10 items,
\* after the startup load and after any sequence of Generate, Select history
\* entry and Clear history actions.
C1_HistoryAtMostTen == Len(history) <= HistoryCap

\* C2: every Generate trigger with a topic that is non-empty after trimming
\* issues exactly one generation call, with the current topic, style and
\* length; with an empty or whitespace-only topic it issues no call, sets the
\* validation message and leaves the loading flag, the displayed content and
\* the history unchanged.
C2_GenerateIssuesOneCall ==
  [][\A via \in Triggers :
       Generate(via) =>
         IF OnlySpaces(topic)
         THEN /\ genCalls' = genCalls
              /\ error' = ValidationMsg
              /\ isLoading' = isLoading
              /\ generatedContent' = generatedContent
              /\ history' = history
         ELSE /\ genCalls \subseteq genCalls'
              /\ Cardinality(genCalls' \ genCalls) = 1
              /\ \A c \in genCalls' \ genCalls :
                   /\ c.topic = topic
                   /\ c.style = style
                   /\ c.length = length]_vars

\* A blank-topic trigger was rejected while a call issued with a picked
\* style and length is in flight.
C2_Witness ==
  /\ error = ValidationMsg
  /\ \E c \in genCalls : c.style = PIRATE /\ c.length = SHORT
  /\ topic = <<" ">>

\* C3 as stated: right after a failed generation call is handled the displayed
\* content is empty, the error is the failure message, the loading flag is
\* false and the history is what it was.
C3_FailureEmptiesDisplay ==
  [][\A c \in genCalls :
       GenFail(c) =>
         /\ generatedContent' = ""
         /\ error' = GenFailMsg
         /\ ~isLoading'
         /\ history' = history]_vars

\* C3 amended: right after a failed generation call is handled the displayed
\* content is what it was just before (empty unless a history entry was
\* selected or another generation call succeeded since the call was issued),
\* the error is the failure message, the loading flag is false and the
\* history is what it was.
C3_FailureKeepsDisplay ==
  [][\A c \in genCalls :
       GenFail(c) =>
         /\ generatedContent' = generatedContent
         /\ (c.id \notin overwritten => generatedContent' = "")
         /\ error' = GenFailMsg
         /\ ~isLoading'
         /\ history' = history]_vars

\* The only call issued has failed and nothing wrote the display meanwhile.
C3_Witness ==
  /\ error = GenFailMsg
  /\ nextCall = 2
  /\ genCalls = {}
  /\ generatedContent = ""
  /\ ~isLoading

\* C4: recording a successful generation sets the history to the new item
\* followed by the previous history, cut to its first 10 entries; from 10
\* items the result has 10 items, the new item first, the previous last item
\* absent and the other 9 in their order.
C4_RecordPrependsAndCaps ==
  [][\A c \in genCalls, r \in YapTexts :
       GenSuccess(c, r) =>
         LET n == Len(history)
         IN  /\ Len(history') = IF n < HistoryCap THEN n + 1 ELSE HistoryCap
             /\ history'[1].content = r
             /\ \A j \in 1..n : history[j].id # history'[1].id
             /\ \A i \in 1..(Len(history') - 1) : history'[i + 1] = history[i]
             /\ n = HistoryCap =>
                  \A j \in 1..Len(history') : history'[j] # history[n]]_vars

\* A full history after an eviction: a generated item first, the oldest
\* stored item gone, the second oldest last.
C4_Witness ==
  /\ Len(history) = HistoryCap
  /\ history[1].id > 0
  /\ history[HistoryCap] = StoredItem(2)

\* C8: selecting a history entry sets topic, style and displayed content to
\* the entry's and leaves the history, the selected length, the loading flag
\* and the error unchanged.
C8_SelectCopiesEntry ==
  [][\A i \in 1..Len(history) :
       SelectHistory(i) =>
         /\ topic' = history[i].topic
         /\ style' = history[i].style
         /\ generatedContent' = history[i].content
         /\ history' = history
         /\ length' = length
         /\ isLoading' = isLoading
         /\ error' = error]_vars

\* A stored entry was selected while a call was in flight, an error was shown
\* and another length was picked.
C8_Witness ==
  /\ topic = <<" ", "a">>
  /\ style = PIRATE
  /\ generatedContent = "old"
  /\ length = SHORT
  /\ isLoading
  /\ error = ValidationMsg
  /\ Len(history) = HistoryCap

\* C9: after Clear history has completed, its save effect included, the
\* 'yap_history' entry is absent from local storage.
C9_ClearRemovesEntry == [][ClearHistory => storage' = Absent]_vars

\* C10: Clear history followed by a startup load yields an empty history, from
\* any prior history and with no generation completing in between.
C10_ClearThenLoadIsEmpty == [][(Mount /\ cleared) => history' = <<>>]_vars

\* A generation was recorded, the history cleared and the page loaded again.
C10_Witness ==
  /\ mounted
  /\ cleared
  /\ history = <<>>
  /\ now > MaxStored + 1
  /\ nextCall = 2
  /\ generatedContent = ""

(***************************************************************************)
(* Properties of the recording sessions (SpecRec).                         *)
(***************************************************************************)
\* C5: every recording session that is stopped releases its microphone stream
\* exactly once, when the transcription succeeds and when it fails; no stream
\* of a stopped session stays held after the transcription has resolved.
C5_StoppedSessionReleasesOnce ==
  \A s \in DOMAIN sessions :
    /\ sessions[s].releases <= 1
    /\ sessions[s].state = "done" =>
         sessions[s].releases = 1 /\ ~sessions[s].held

\* Two stopped sessions are over: one transcription succeeded, one failed.
C5_Witness ==
  /\ Len(sessions) = 2
  /\ \A s \in DOMAIN sessions : sessions[s].state = "done"
  /\ topic = <<"t">>
  /\ error = TranscribeMsg

\* C6: at most one recording session, one acquired microphone stream with its
\* recorder, exists at any time.
C6_AtMostOneSession ==
  Cardinality({s \in DOMAIN sessions :
                 /\ sessions[s].held
                 /\ sessions[s].state \in {"recording", "stopping", "transcribing"}}) <= 1

\* C7: when startRecording fails, by denial or because creating or starting
\* the recorder throws, the recording flag stays false, the error is the
\* microphone message, and the attempt keeps no stream and no recorder.
C7_FailedStartKeepsNothing ==
  [][\A s \in DOMAIN sessions :
       (\/ DenyMicrophone(s)
        \/ GrantMicrophone(s, ConstructorThrows)
        \/ GrantMicrophone(s, StartThrows)) =>
         /\ ~isRecording => ~isRecording'
         /\ error' = MicMsg
         /\ ~sessions'[s].held
         /\ mediaRecorderRef' # s]_vars

\* C11: from an entry that is missing or malformed the startup load yields an
\* empty history, and nothing crashes, at load or afterwards: Generate and
\* Clear history go on working on the loaded state.
C11_MalformedLoadsEmpty ==
  /\ [][Mount => history' = <<>>]_vars
  /\ [](~crashed)

\* C12: the history item a successful generation call creates holds the topic
\* and the style submitted with that call and the text the call returned,
\* whatever the topic and style fields hold when the call resolves.
C12_ItemHoldsSubmittedInputs ==
  [][\A c \in genCalls : \A result \in YapTexts :
       (GenSuccess(c, result) /\ IsArray(history)) =>
         /\ history'[1].topic = c.topic
         /\ history'[1].style = c.style
         /\ history'[1].content = result]_vars

\* A call has resolved and recorded its item after the user had changed both
\* the topic and the style it was submitted with.
C12_Witness ==
  /\ mounted
  /\ nextCall = 2
  /\ genCalls = {}
  /\ Len(history) >= 1
  /\ history[1].id = 1
  /\ history[1].topic # topic
  /\ history[1].style # style
  /\ generatedContent = history[1].content

\* C13 as stated: when a transcription call succeeds with text t the topic
\* becomes the topic at resolution time followed by one space and t if that
\* topic is non-empty, and t otherwise; when it fails the error is the
\* transcription message and the topic is unchanged; either way the
\* transcribing flag ends false.
C13_AppendsToTopicAsIs ==
  [][\A s \in DOMAIN sessions :
       /\ \A t \in Transcripts :
            TranscribeSuccess(s, t) =>
              /\ topic' = IF topic # <<>> THEN topic \o <<" ">> \o t ELSE t
              /\ ~isTranscribing'
       /\ TranscribeFail(s) =>
            /\ error' = TranscribeMsg
            /\ topic' = topic
            /\ ~isTranscribing']_vars

\* C13 amended: when a transcription call succeeds with non-empty text t the
\* topic becomes the topic at resolution time with its leading and trailing
\* whitespace removed, followed by one space and t, if that trimmed topic is
\* non-empty, and t otherwise; when it succeeds with empty text the topic is
\* unchanged; when it fails the error is the transcription message and the
\* topic is unchanged; in every case the transcribing flag ends false.
C13_AppendsToTrimmedTopic ==
  [][\A s \in DOMAIN sessions :
       /\ \A t \in Transcripts :
            TranscribeSuccess(s, t) =>
              /\ topic' = IF t = <<>> THEN topic
                          ELSE IF OnlySpaces(topic) THEN t
                          ELSE TrimStart(TrimEnd(topic)) \o <<" ">> \o t
              /\ ~isTranscribing'
       /\ TranscribeFail(s) =>
            /\ error' = TranscribeMsg
            /\ topic' = topic
            /\ ~isTranscribing']_vars

\* A transcript was joined to a topic that began with a space, and another
\* transcription has failed.
C13_Witness ==
  /\ topic = <<"a", " ", "t">>
  /\ error = TranscribeMsg
  /\ ~isTranscribing
  /\ \E s \in DOMAIN sessions : sessions[s].state = "done"

\* C14: the history survives a restart.  When the page is restarted the
\* durable entry holds the JSON of the in-memory history of that moment, and
\* the startup load with the mount-time save effect, from an entry that is the
\* JSON of a sequence, puts exactly that sequence in memory and leaves exactly
\* that text in the entry.
C14_HistorySurvivesRestart ==
  [][/\ Restart => storage' = Stringify(history)
     /\ (Mount /\ ParsesArray(storage)) =>
          /\ IsArray(history')
          /\ Stringify(history') = storage
          /\ storage' = storage]_vars

\* The page was restarted after a generation, and the item that generation
\* recorded is back at the head of the history.
C14_Witness ==
  /\ mounted
  /\ nextCall = 2
  /\ genCalls = {}
  /\ error = Null
  /\ generatedContent = ""
  /\ Len(history) > 1
  /\ history[1].id = 1
  /\ storage = Stringify(history)

\* The sessions whose transcription is in flight (lines 141-144).
Transcribing == {s \in DOMAIN sessions : sessions[s].state = "transcribing"}

\* C15: a recording session moves only along Idle, Recording, Transcribing,
\* Idle: the transcribing flag becomes true only by the stop event of a
\* recorder that was recording and has been stopped, and the recording flag
\* and the transcribing flag are never both true.
C15_RecordingThenTranscribing ==
  /\ [][(~isTranscribing /\ isTranscribing') =>
          \E s \in DOMAIN sessions :
            sessions[s].state = "stopping" /\ sessions'[s].state = "transcribing"]_vars
  /\ [](~(isRecording /\ isTranscribing))

\* C16: while a transcription call is in flight the toggle is disabled, so no
\* recording can be started or stopped, and at most one transcription call is
\* in flight at any time.
C16_ToggleDisabledWhileTranscribing ==
  /\ Transcribing # {} => ~ToggleEnabled
  /\ Cardinality(Transcribing) <= 1

\* C17: the audio payload sent for a session is the concatenation, in capture
\* order, of exactly the non-empty chunks that session's recorder delivered.
C17_PayloadIsOwnChunks ==
  \A s \in DOMAIN sessions :
    sessions[s].state \in {"transcribing", "done"} =>
      sessions[s].payload = sessions[s].captured

\* C18: every Generate that passed validation gets its loading flag cleared
\* when its call resolves, by success or by failure, and every call does
\* resolve; whenever no generation call is in flight the loading flag is false
\* and the Generate button is enabled, and whenever no transcription is in
\* flight the transcribing flag is false and the toggle is enabled, so also
\* after any generation, transcription or microphone failure.
C18_FlagsClearedOnResolution ==
  /\ [][GenResolves => ~isLoading']_vars
  /\ [][TranscribeResolves => ~isTranscribing']_vars
  /\ [](genCalls = {} => (~isLoading /\ TriggerEnabled(Button)))
  /\ [](Transcribing = {} => (~isTranscribing /\ ToggleEnabled))
  /\ (isLoading ~> ~isLoading)
  /\ (isTranscribing ~> ~isTranscribing)

\* A generation call and then a transcription have failed, nothing is in
\* flight, and both flags are down.
C18_Witness ==
  /\ mounted
  /\ nextCall = 2
  /\ genCalls = {}
  /\ history = <<>>
  /\ Len(sessions) = 1
  /\ sessions[1].state = "done"
  /\ sessions[1].releases = 1
  /\ error = TranscribeMsg
  /\ topic = <<" ", "a">>
  /\ ~isLoading
  /\ ~isTranscribing

\* C19: the history is ordered newest first in every reachable state: its
\* timestamps never increase from one item to the next, overlapping calls
\* that resolve out of order included.
C19_NewestFirst ==
  \A i \in 1..(Len(history) - 1) :
    history[i].timestamp >= history[i + 1].timestamp

\* Two overlapping calls have resolved in the reverse of the order they were
\* issued in, on top of stored items.
C19_Witness ==
  /\ Len(history) > 2
  /\ history[1].id = 1
  /\ history[2].id = 2
  /\ history[3].id < 0

\* C20: the loading flag is true in every state in which at least one
\* generation call is in flight, whatever triggered the calls and in whatever
\* order they resolve.
C20_LoadingWhileInFlight == genCalls # {} => isLoading

====
